---- MODULE Spec2Model ----
(***************************************************************************)
(* Evolutionary optimizer: Gene, Individual, Population and the EA driver. *)
(*                                                                         *)
(* Python objects live in two heaps: individuals (object id -> Individual) *)
(* and genes (object id -> Gene).  pop is the list self.pop of references  *)
(* to Individual objects, and a genotype is the ordered list of references *)
(* to the Gene objects stored under the keys of the genotype schema.       *)
(* Real gene values are represented on the unit grid, as integer genes are.*)
(***************************************************************************)
EXTENDS Integers, Sequences, FiniteSets, TLC

VARIABLES
  config,             \* the configuration dictionary handed to EA / Population
  pop,                \* Population.pop: sequence of Individual object ids
  individuals,        \* heap of Individual objects: id -> [constraint, genotype]
  genes,              \* heap of Gene objects: id -> [type, gene, minimum, maximum, constraint]
  error,              \* the exception that ended the last call, or "none"
  crossed,            \* locals of the latest crossover call, one record per parent pair
  pc,                 \* position of EA.evolve
  gen,                \* loop variable of EA.evolve
  evolution_process,  \* EA.evolution_process, the trace
  calls,              \* Population methods called by EA.evolve so far, in order
  report              \* the final reports printed by EA.evolve

vars == <<config, pop, individuals, genes, error, crossed, pc, gen,
          evolution_process, calls, report>>

(***************************************************************************)
(* Bounds of the model.                                                    *)
(***************************************************************************)
MaxMut == 1     \* |randn draw| on the grid is at most MaxMut
Drift  == 1     \* a Soft gene is followed up to Drift outside [minimum, maximum]
MaxGen == 2     \* config["generations"] ranges over 0..MaxGen

\* Python's None, for an absent configuration key
None == <<>>

Min(a, b) == IF a < b THEN a ELSE b

Range(s) == {s[i] : i \in DOMAIN s}

\* int(fraction * n) for a fraction <<numerator, denominator>> in [0, 1]
IntOfProduct(fraction, n) == (fraction[1] * n) \div fraction[2]

(***************************************************************************)
(* Objective and fitness functions.                                        *)
(***************************************************************************)
booth_test(x, y) == (x + 2*y - 7) * (x + 2*y - 7) + (2*x + y - 5) * (2*x + y - 5)

\* rosenbrock_test(*args): the sum over consecutive pairs (x, y) of the
\* arguments of (1-x)**2 + 100*(y - x**2)**2; `upto` pairs are summed
RECURSIVE rosenbrock_sum(_, _)
rosenbrock_sum(unpack_args, upto) ==
  IF upto <= 0 THEN 0
  ELSE LET x == unpack_args[upto]
           y == unpack_args[upto + 1]
       IN  rosenbrock_sum(unpack_args, upto - 1)
             + (1 - x) * (1 - x) + 100 * (y - x * x) * (y - x * x)

rosenbrock_test(args) == rosenbrock_sum(args, Len(args) - 1)

Minimize(x) == x

Maximize(x) == 0 - x

\* config["fitness"] applied to a raw objective value
Fitness(x) == IF config.fitness = "Maximize" THEN Maximize(x) ELSE Minimize(x)

\* config["optimization function"], or lambda x: x when the key is absent
\* ("lambda"), called with the gene values in genotype order
Objective(args) ==
  IF config.optimization_function = "booth_test"
    THEN booth_test(args[1], args[2])
  ELSE IF config.optimization_function = "rosenbrock_test"
    THEN rosenbrock_test(args)
    ELSE args[1]

(***************************************************************************)
(* Gene                                                                    *)
(***************************************************************************)
\* the values _init_gene can return: randint(low, high) and uniform(low, high)
\* both draw from [minimum, maximum)
InitGene(minimum, maximum) == minimum .. (maximum - 1)

\* Gene.__init__
NewGene(gene_type, minimum, maximum, constraint, value) ==
  [type |-> gene_type, gene |-> value, minimum |-> minimum,
   maximum |-> maximum, constraint |-> constraint]

\* the draws of np.random.randn(1), truncated for int genes
Mutations == (0 - MaxMut) .. MaxMut

\* Gene.mutate leaves `mutation` unbound when the type is neither int nor float
MutateRaises(g) == g.type \notin {"int", "float"}

\* Gene.mutate on the Gene object g with the drawn mutation: the new value
GeneMutate(g, mutation) ==
  IF g.constraint = "Hard"
    THEN IF g.gene + mutation < g.maximum /\ g.gene + mutation > g.minimum
           THEN g.gene + mutation
           ELSE g.gene
    ELSE g.gene + mutation

\* Gene.value
Value(gs, gid) == gs[gid].gene

(***************************************************************************)
(* Individual                                                              *)
(***************************************************************************)
\* Individual.evaluate(optimization_func, fitness) on heaps inds, gs
Evaluate(inds, gs, iid) ==
  LET genotype == inds[iid].genotype
  IN  Fitness(Objective([k \in DOMAIN genotype |-> Value(gs, genotype[k])]))

\* Individual.evaluate(optimization_func): the fitness defaults to lambda x: x
EvaluateRaw(inds, gs, iid) ==
  LET genotype == inds[iid].genotype
  IN  Objective([k \in DOMAIN genotype |-> Value(gs, genotype[k])])

\* self.genotype.values(): the Gene objects of an individual in genotype order
GenesOf(inds, gs, iid) ==
  [k \in DOMAIN inds[iid].genotype |-> gs[inds[iid].genotype[k]]]

\* the values of an individual's genes in genotype order
Phenotype(inds, gs, iid) ==
  [k \in DOMAIN inds[iid].genotype |-> Value(gs, inds[iid].genotype[k])]


\* copy.copy instead of copy.deepcopy: the copy shares the Gene objects
ShallowCopyGenotype(genotype, base) == genotype

\* the object ids a genotype dictionary receives when deepcopy copies it: one
\* new Gene object per distinct Gene object, numbered from base + 1
DeepCopyGenotype(genotype, base) ==
  [k \in DOMAIN genotype |->
     base + (CHOOSE j \in DOMAIN genotype :
               /\ genotype[j] = genotype[k]
               /\ \A i \in DOMAIN genotype : genotype[i] = genotype[k] => j <= i)]

\* Gene.copy returning the gene itself
GeneCopyShared(gid, fresh) == gid

\* Gene.copy: deepcopy returns the new object `fresh`
GeneCopy(gid, fresh) == fresh

MaxId(heap) == IF DOMAIN heap = {} THEN 0
               ELSE CHOOSE m \in DOMAIN heap : \A i \in DOMAIN heap : i <= m

\* the copies given the constraint of an Individual constructed with its
\* default, "Soft", instead of the constraint of the Gene copied
WithSoftGenes(gs, genotype, copies) ==
  [c \in Range(copies) |->
     [gs[genotype[CHOOSE k \in DOMAIN copies : copies[k] = c]]
        EXCEPT !.constraint = "Soft"]] @@ gs

\* heap gs with the Gene objects of `genotype` copied to the ids `copies`
WithGenes(gs, genotype, copies) ==
  [c \in Range(copies) |->
     gs[genotype[CHOOSE k \in DOMAIN copies : copies[k] = c]]] @@ gs

\* Individual.copy of the object iid: the heaps with the copy stored as `fresh`
IndividualCopy(h, iid, fresh) ==
  LET genotype == h.inds[iid].genotype
      copies   == DeepCopyGenotype(genotype, MaxId(h.gs))
  IN  [h EXCEPT
         !.inds = (fresh :> [constraint |-> h.inds[iid].constraint,
                             genotype |-> copies]) @@ h.inds,
         !.gs   = WithGenes(h.gs, genotype, copies)]

\* the draws the model follows for the Gene object g: those that keep its
\* value within Drift of its declared interval
Draws(g) ==
  {mutation \in Mutations :
     GeneMutate(g, mutation) \in (g.minimum - Drift) .. (g.maximum + Drift)}

\* self.genotype[gene].mutate() for the k-th gene of iid: the heaps it can leave
MutateGene(h, iid, k) ==
  LET gid == h.inds[iid].genotype[k]
      g   == h.gs[gid]
  IN  IF h.err # "none" THEN {h}
      ELSE IF MutateRaises(g) THEN {[h EXCEPT !.err = "UnboundLocalError"]}
      ELSE {[h EXCEPT !.gs[gid].gene = GeneMutate(g, mutation)] :
              mutation \in Draws(g)}

\* Individual.mutate: the genes are mutated in genotype order and the first
\* gene whose mutate raises ends the call.  H is the set of heaps the call can
\* start from, the result the set of heaps it can leave.
RECURSIVE MutateFrom(_, _, _)
MutateFrom(H, iid, k) ==
  IF \A h \in H : k > Len(h.inds[iid].genotype) THEN H
  ELSE MutateFrom(UNION {MutateGene(h, iid, k) : h \in H}, iid, k + 1)

IndividualMutate(H, iid) == MutateFrom(H, iid, 1)

(***************************************************************************)
(* Population                                                              *)
(***************************************************************************)
\* Population.mutate(mutant_pop): individual.mutate() for each member in order
RECURSIVE MutateAll(_, _, _)
MutateAll(H, mutant_pop, j) ==
  IF j > Len(mutant_pop) THEN H
  ELSE MutateAll(IndividualMutate(H, mutant_pop[j]), mutant_pop, j + 1)

PopulationMutate(H, mutant_pop) == MutateAll(H, mutant_pop, 1)

\* the list left in the order it had
Unsorted(inds, gs, p) == p

\* sorted(self.pop, key=...): a stable sort, ascending by score
RECURSIVE SortedByScore(_, _, _)
SortedByScore(inds, gs, p) ==
  IF Len(p) <= 1 THEN p
  ELSE LET front == SortedByScore(inds, gs, SubSeq(p, 1, Len(p) - 1))
           x     == p[Len(p)]
           n     == Cardinality({i \in DOMAIN front :
                       Evaluate(inds, gs, front[i]) <= Evaluate(inds, gs, x)})
       IN  SubSeq(front, 1, n) \o <<x>> \o SubSeq(front, n + 1, Len(front))

\* Population.scores
scores(inds, gs, p) == [i \in DOMAIN p |-> Evaluate(inds, gs, p[i])]

\* the slice taken from the wrong end of the list
GetElitesLast(p) ==
  SubSeq(p, Len(p) - Min(IntOfProduct(config.elitism, config.pop_size), Len(p)) + 1,
         Len(p))

\* Population._get_elites: self.pop[:int(self.elitism * self.pop_size)]
GetElites(p) ==
  SubSeq(p, 1, Min(IntOfProduct(config.elitism, config.pop_size), Len(p)))

(***************************************************************************)
(* Object identity.  Objects no longer referenced from self.pop are        *)
(* collected, and the remaining ones are renamed in order of first         *)
(* reference, which keeps who shares what with whom and nothing else.      *)
(***************************************************************************)
RECURSIVE Uniq(_)
Uniq(s) ==
  IF Len(s) = 0 THEN <<>>
  ELSE LET u == Uniq(SubSeq(s, 1, Len(s) - 1))
           x == s[Len(s)]
       IN  IF x \in Range(u) THEN u ELSE Append(u, x)

IndexOf(s, x) == CHOOSE i \in DOMAIN s : s[i] = x

RECURSIVE Flatten(_)
Flatten(ss) ==
  IF Len(ss) = 0 THEN <<>>
  ELSE Flatten(SubSeq(ss, 1, Len(ss) - 1)) \o ss[Len(ss)]

Collected(p, inds, gs) ==
  LET order  == Uniq(p)
      gorder == Uniq(Flatten([j \in DOMAIN order |-> inds[order[j]].genotype]))
  IN  [pop  |-> [i \in DOMAIN p |-> IndexOf(order, p[i])],
       inds |-> [j \in DOMAIN order |->
                   [constraint |-> inds[order[j]].constraint,
                    genotype |-> [k \in DOMAIN inds[order[j]].genotype |->
                                    IndexOf(gorder, inds[order[j]].genotype[k])]]],
       gs   |-> [j \in DOMAIN gorder |-> gs[gorder[j]]]]


\* self._get_individual(idx) for each drawn index, in order: the j-th copy is
\* the new object base + j
RECURSIVE GetIndividuals(_, _, _, _)
GetIndividuals(h, mutants_idx, base, j) ==
  IF j > Len(mutants_idx) THEN h
  ELSE GetIndividuals(IndividualCopy(h, pop[mutants_idx[j]], base + j),
                      mutants_idx, base, j + 1)

\* Population.select
\* (a value bound by \E x \in {e} is computed once, where LET x == e would be
\* computed again at each use)
Select ==
  LET new_pop == IF config.elitism # None THEN GetElites(pop) ELSE <<>>
      m       == Len(pop) - Len(new_pop)
      base    == MaxId(individuals)
      mutants == [j \in 1..m |-> base + j]
  IN  \E mutants_idx \in [1..m -> DOMAIN pop] :
      \E copied \in {GetIndividuals(
                       [inds |-> individuals, gs |-> genes, err |-> "none"],
                       mutants_idx, base, 1)} :
      \E h \in PopulationMutate({copied}, mutants) :
      \E c \in {Collected(new_pop \o mutants, h.inds, h.gs)} :
        /\ error' = h.err
        /\ crossed' = <<>>
        /\ IF h.err # "none"
             THEN UNCHANGED <<pop, individuals, genes>>
             ELSE /\ pop' = c.pop
                  /\ individuals' = c.inds
                  /\ genes' = c.gs

\* Population.evaluate
EvaluatePop ==
  \E c \in {Collected(SortedByScore(individuals, genes, pop), individuals, genes)} :
    /\ pop' = c.pop
    /\ individuals' = c.inds
    /\ genes' = c.gs
    /\ error' = "none"
    /\ crossed' = <<>>

\* Population.mutate() on the whole population, in place
Mutate ==
  \E h \in PopulationMutate(
             {[inds |-> individuals, gs |-> genes, err |-> "none"]}, pop) :
    /\ genes' = h.gs
    /\ error' = h.err
    /\ crossed' = <<>>
    /\ UNCHANGED <<pop, individuals>>

\* the comparison turned round
Worst(a_score, b_score, a, b) == IF a_score > b_score THEN a ELSE b

\* "if a_score < b_score: best = a, else: best = b", the rule crossover
\* applies to a parent pair and _cross to its two children
Best(a_score, b_score, a, b) == IF a_score < b_score THEN a ELSE b

\* parent_size without the step that makes it even
ParentSizeOdd(crossover_rate, n) == IntOfProduct(crossover_rate, n)

\* parent_size of crossover for a population of n individuals
ParentSize(crossover_rate, n) ==
  LET parent_size == IntOfProduct(crossover_rate, n)
  IN  IF parent_size % 2 = 1 THEN parent_size + 1 ELSE parent_size

\* sorted(parents, reverse=True)
RECURSIVE SortedReverse(_)
SortedReverse(S) ==
  IF S = {} THEN <<>>
  ELSE LET m == CHOOSE x \in S : \A y \in S : y <= x
       IN  <<m>> \o SortedReverse(S \ {m})

\* the cut drawn anywhere in range(len(keys)), position 0 included
PositionsFromZero(gene_count) == 0 .. (gene_count - 1)

\* list(range(len(keys)))[1:], the cut positions _cross draws from
Positions(gene_count) == 1 .. (gene_count - 1)

\* Population._cross(parent1, parent2) with the drawn position; the children
\* are the new objects id1 and id2
Cross(h, parent1, parent2, position, id1, id2) ==
  LET keys == DOMAIN h.inds[parent1].genotype
      gb   == MaxId(h.gs)
      n    == Cardinality(keys)
      src1 == [k \in keys |-> IF k - 1 < position
                                THEN h.inds[parent1].genotype[k]
                                ELSE h.inds[parent2].genotype[k]]
      src2 == [k \in keys |-> IF k - 1 < position
                                THEN h.inds[parent2].genotype[k]
                                ELSE h.inds[parent1].genotype[k]]
      g1   == [k \in keys |-> GeneCopy(src1[k], gb + k)]
      g2   == [k \in keys |-> GeneCopy(src2[k], gb + n + k)]
      inds == (id1 :> [constraint |-> "Soft", genotype |-> g1]) @@
              (id2 :> [constraint |-> "Soft", genotype |-> g2]) @@ h.inds
      gs   == WithGenes(WithGenes(h.gs, src1, g1), src2, g2)
      child1_score == Evaluate(inds, gs, id1)
      child2_score == Evaluate(inds, gs, id2)
  IN  [h          |-> [h EXCEPT !.inds = inds, !.gs = gs],
       child1     |-> id1,
       child2     |-> id2,
       best_child |-> Best(child1_score, child2_score, id1, id2)]

\* the loop of crossover over the parent pairs: the heaps after the first i
\* calls of _cross and the list children
RECURSIVE CrossPairs(_, _, _, _, _, _)
CrossPairs(h, male, female, positions, base, i) ==
  IF i = 0 THEN [h |-> h, children |-> <<>>, made |-> <<>>]
  ELSE LET before == CrossPairs(h, male, female, positions, base, i - 1)
           x      == Cross(before.h, male[i], female[i], positions[i],
                           base + 2 * i - 1, base + 2 * i)
       IN  [h        |-> x.h,
            children |-> Append(before.children, x.best_child),
            made     |-> Append(before.made, x)]

\* Population.crossover(crossover_rate)
Crossover(crossover_rate) ==
  LET n           == Len(pop)
      parent_size == ParentSize(crossover_rate, n)
      half        == parent_size \div 2
  IN  IF parent_size > n
        THEN \* np.random.choice(..., replace=False) refuses the sample
             /\ error' = "ValueError"
             /\ crossed' = <<>>
             /\ UNCHANGED <<pop, individuals, genes>>
        ELSE \E parents \in {S \in SUBSET (1..n) : Cardinality(S) = parent_size} :
             \E desc \in {SortedReverse(parents)} :
             \E male \in {[i \in 1..half |-> pop[desc[i]]]} :
             \E female \in {[i \in 1..(parent_size - half) |-> pop[desc[half + i]]]} :
             \E best \in {[i \in 1..half |->
                             Best(Evaluate(individuals, genes, male[i]),
                                  Evaluate(individuals, genes, female[i]),
                                  male[i], female[i])]} :
             \E rest \in {SelectSeq([j \in 1..n |-> j], LAMBDA j : j \notin parents)} :
             \E pop1 \in {[i \in DOMAIN rest |-> pop[rest[i]]] \o best} :
               IF half > 0 /\ Positions(Len(config.indiv)) = {}
                 THEN \* _cross: np.random.choice of an empty list
                      \E c \in {Collected(pop1, individuals, genes)} :
                        /\ error' = "ValueError"
                        /\ crossed' = <<>>
                        /\ pop' = c.pop
                        /\ individuals' = c.inds
                        /\ genes' = c.gs
                 ELSE \E positions \in [1..half -> Positions(Len(config.indiv))] :
                      \E x \in {CrossPairs(
                                  [inds |-> individuals, gs |-> genes, err |-> "none"],
                                  male, female, positions, MaxId(individuals), half)} :
                      \E c \in {Collected(pop1 \o x.children, x.h.inds, x.h.gs)} :
                        /\ error' = "none"
                        /\ crossed' =
                             [i \in 1..half |->
                                [male       |-> Phenotype(individuals, genes, male[i]),
                                 female     |-> Phenotype(individuals, genes, female[i]),
                                 best       |-> IF best[i] = male[i]
                                                  THEN "male" ELSE "female",
                                 position   |-> positions[i],
                                 child1     |-> Phenotype(x.h.inds, x.h.gs, x.made[i].child1),
                                 child2     |-> Phenotype(x.h.inds, x.h.gs, x.made[i].child2),
                                 child1_genotype |->
                                   GenesOf(x.h.inds, x.h.gs, x.made[i].child1),
                                 child2_genotype |->
                                   GenesOf(x.h.inds, x.h.gs, x.made[i].child2),
                                 best_child |-> IF x.made[i].best_child = x.made[i].child1
                                                  THEN "child1" ELSE "child2"]]
                        /\ pop' = c.pop
                        /\ individuals' = c.inds
                        /\ genes' = c.gs

(***************************************************************************)
(* Configurations.  A genotype schema is the ordered list of its entries   *)
(* name: (type, [minimum, maximum]).                                       *)
(***************************************************************************)
GeneConfig(name, gene_type, minimum, maximum) ==
  [name |-> name, type |-> gene_type, minimum |-> minimum, maximum |-> maximum]

Genotype1(gene_type) == <<GeneConfig("x", gene_type, 0, 3)>>

Genotype2 == <<GeneConfig("x", "int", 0, 3), GeneConfig("y", "float", 0, 2)>>

Genotype3 == <<GeneConfig("x", "int", 0, 2), GeneConfig("y", "float", 0, 2),
               GeneConfig("z", "int", 0, 2)>>

Config(pop_size, elitism, indiv, generations, crossover_rate, constraint, fitness) ==
  [pop_size     |-> pop_size,
   elitism      |-> elitism,
   indiv        |-> indiv,
   generations  |-> generations,
   crossover    |-> crossover_rate # None,
   crossover_rate |-> crossover_rate,
   constraint   |-> constraint,
   fitness      |-> fitness,
   optimization_function |-> IF Len(indiv) = 2 THEN "booth_test"
                             ELSE IF Len(indiv) = 3 THEN "rosenbrock_test"
                             ELSE "lambda"]

\* the configurations EA.evolve is run on
EAConfigs ==
  \* one gene, no crossover
  {Config(2, e, Genotype1("int"), n, None, "Hard", f) :
     e \in {None, <<1, 3>>, <<1, 2>>}, n \in 0..MaxGen,
     f \in {"Minimize", "Maximize"}}
  \cup
  \* two genes, with and without crossover
  {Config(2, e, Genotype2, n, r, "Hard", "Minimize") :
     e \in {<<1, 3>>, <<1, 2>>}, n \in 0..MaxGen, r \in {None, <<1, 1>>}}
  \cup
  \* a real gene under the Soft constraint
  {Config(2, <<1, 2>>, Genotype1("float"), n, None, "Soft", "Minimize") :
     n \in 0..MaxGen}
  \cup
  \* a gene of a type that is neither int nor float
  {Config(2, e, Genotype1("str"), n, None, c, "Minimize") :
     e \in {<<1, 2>>, <<1, 1>>}, n \in 0..MaxGen, c \in {"Hard", "Soft"}}
  \cup
  \* crossover on a one-gene genotype, or on more parents than individuals
  {Config(N, <<1, 2>>, Genotype1("int"), n, r, "Hard", "Minimize") :
     N \in {2, 3}, n \in 0..MaxGen, r \in {<<1, 3>>, <<1, 1>>}}
  \cup
  \* three individuals, one of them an elite
  {Config(3, <<1, 3>>, Genotype1("int"), n, None, "Hard", "Maximize") :
     n \in 0..MaxGen}

\* the configurations of the populations whose methods are called directly
PopConfigs ==
  {Config(2, e, Genotype1("float"), 0, None, c, "Minimize") :
     e \in {None, <<0, 1>>, <<1, 2>>, <<1, 1>>}, c \in {"Hard", "Soft"}}
  \cup
  {Config(2, None, Genotype1("int"), 0, None, "Medium", "Minimize")}
  \cup
  {Config(2, e, Genotype2, 0, None, "Hard", "Minimize") :
     e \in {None, <<0, 1>>, <<1, 2>>, <<1, 1>>}}
  \cup
  {Config(3, <<2, 3>>, Genotype2, 0, None, "Hard", "Maximize")}
  \cup
  {Config(2, None, Genotype3, 0, None, "Hard", "Minimize")}

\* the crossover rates the direct calls use
Rates == {<<1, 3>>, <<2, 3>>, <<1, 1>>}

(***************************************************************************)
(* Construction: Population.__init__ and _init_pop build pop_size          *)
(* Individuals, each with one Gene per schema entry in schema order.       *)
(***************************************************************************)
\* Population.__init__: self.constraint, "Soft" unless the configuration
\* says "Hard" or "Soft"
Constraint(cfg) ==
  IF cfg.constraint \notin {"Hard", "Soft"} THEN "Soft" ELSE cfg.constraint

InitPop(cfg) ==
  LET G == Len(cfg.indiv)
  IN  \E values \in [1..cfg.pop_size -> [1..G -> 0..3]] :
        /\ \A i \in 1..cfg.pop_size : \A k \in 1..G :
             values[i][k] \in InitGene(cfg.indiv[k].minimum, cfg.indiv[k].maximum)
        /\ pop = [i \in 1..cfg.pop_size |-> i]
        /\ individuals =
             [i \in 1..cfg.pop_size |->
                [constraint |-> Constraint(cfg),
                 genotype |-> [k \in 1..G |-> (i - 1) * G + k]]]
        /\ genes =
             [gid \in 1..(cfg.pop_size * G) |->
                LET i == ((gid - 1) \div G) + 1
                    k == ((gid - 1) % G) + 1
                IN  NewGene(cfg.indiv[k].type, cfg.indiv[k].minimum,
                            cfg.indiv[k].maximum, Constraint(cfg), values[i][k])]
        /\ error = "none"
        /\ crossed = <<>>

\* EA.__init__
Init ==
  /\ config \in EAConfigs
  /\ InitPop(config)
  /\ pc = "loop"
  /\ gen = 0
  /\ evolution_process = <<>>
  /\ calls = <<>>
  /\ report = <<>>

\* a Population on its own, no driver running
InitPopulation ==
  /\ config \in PopConfigs
  /\ InitPop(config)
  /\ pc = "idle"
  /\ gen = 0
  /\ evolution_process = <<>>
  /\ calls = <<>>
  /\ report = <<>>

(***************************************************************************)
(* EA.evolve, one action per statement of the loop body.                   *)
(***************************************************************************)
\* one iteration too many
InRangeInclusive(g) == g <= config.generations

\* "for gen in range(self.Gen)": the loop body runs for g
InRange(g) == g < config.generations

EvolveCrossover ==
  /\ pc = "loop"
  /\ InRange(gen)
  /\ config.crossover
  /\ Crossover(config.crossover_rate)
  /\ pc' = IF error' = "none" THEN "evaluate" ELSE "failed"
  /\ calls' = Append(calls, "crossover")
  /\ UNCHANGED <<config, gen, evolution_process, report>>

EvolveEvaluate ==
  /\ pc = IF config.crossover THEN "evaluate" ELSE "loop"
  /\ InRange(gen)
  /\ EvaluatePop
  /\ pc' = "append"
  /\ calls' = Append(calls, "evaluate")
  /\ UNCHANGED <<config, gen, evolution_process, report>>

EvolveAppend ==
  /\ pc = "append"
  /\ evolution_process' = Append(evolution_process,
       << Phenotype(individuals, genes, pop[1])
            \o <<EvaluateRaw(individuals, genes, pop[1])>>,
          Phenotype(individuals, genes, pop[Len(pop)])
            \o <<EvaluateRaw(individuals, genes, pop[Len(pop)])>> >>)
  /\ pc' = "select"
  /\ UNCHANGED <<config, pop, individuals, genes, error, crossed, gen, calls, report>>

EvolveSelect ==
  /\ pc = "select"
  /\ Select
  /\ pc' = IF error' = "none" THEN "loop" ELSE "failed"
  /\ gen' = IF error' = "none" THEN gen + 1 ELSE gen
  /\ calls' = Append(calls, "select")
  /\ UNCHANGED <<config, evolution_process, report>>

EvolveReport ==
  /\ pc = "loop"
  /\ ~InRange(gen)
  /\ report' = Append(report,
       [best  |-> [fitness |-> scores(individuals, genes, pop)[1],
                   display |-> Phenotype(individuals, genes, pop[1])],
        worst |-> [fitness |-> scores(individuals, genes, pop)[Len(pop)],
                   display |-> Phenotype(individuals, genes, pop[Len(pop)])]])
  /\ pc' = "done"
  /\ UNCHANGED <<config, pop, individuals, genes, error, crossed, gen,
                 evolution_process, calls>>

Next ==
  \/ EvolveCrossover
  \/ EvolveEvaluate
  \/ EvolveAppend
  \/ EvolveSelect
  \/ EvolveReport

Spec == Init /\ [][Next]_vars

(***************************************************************************)
(* The methods of a Population called directly, in any order, until one    *)
(* raises.                                                                 *)
(***************************************************************************)
CallCrossover ==
  /\ pc = "idle" /\ error = "none"
  /\ \E crossover_rate \in Rates : Crossover(crossover_rate)
  /\ UNCHANGED <<config, pc, gen, evolution_process, calls, report>>

CallEvaluate ==
  /\ pc = "idle" /\ error = "none"
  /\ EvaluatePop
  /\ UNCHANGED <<config, pc, gen, evolution_process, calls, report>>

CallSelect ==
  /\ pc = "idle" /\ error = "none"
  /\ Select
  /\ UNCHANGED <<config, pc, gen, evolution_process, calls, report>>

CallMutate ==
  /\ pc = "idle" /\ error = "none"
  /\ Mutate
  /\ UNCHANGED <<config, pc, gen, evolution_process, calls, report>>

NextPopulation ==
  \/ CallCrossover
  \/ CallEvaluate
  \/ CallSelect
  \/ CallMutate

SpecPopulation == InitPopulation /\ [][NextPopulation]_vars


(***************************************************************************)
(* Properties                                                              *)
(***************************************************************************)
\* the fitness score of a phenotype
ScoreOf(phenotype) == Fitness(Objective(phenotype))

\* the number of elites select carries over
EliteCount ==
  IF config.elitism = None THEN 0
  ELSE IntOfProduct(config.elitism, config.pop_size)

\* C1: while every call made so far has returned normally, the population
\* holds exactly pop_size individuals, whatever the order of the crossover,
\* evaluate, select and mutate calls, the elitism setting and the rate.
C1_SizeConserved ==
  error = "none" => Len(pop) = config.pop_size

\* C1 witness: a crossover has returned on a population of three (two parents
\* removed, one parent and one child put back, one individual not involved).
C1_Witness ==
  /\ error = "none"
  /\ Len(crossed) = 1
  /\ config.pop_size = 3
  /\ Len(pop) = 3

\* the best fitness score of the population evaluated in generation i, read
\* from the trace entry appended right after that evaluation
BestScore(i) ==
  Fitness(evolution_process[i][1][Len(evolution_process[i][1])])

\* the best score never gets worse from one generation to the next
BestNeverWorse ==
  \A i \in 1..(Len(evolution_process) - 1) : BestScore(i + 1) <= BestScore(i)

\* C2 as stated: whenever elitism_fraction > 0, the best score of generation
\* n+1 is at most the best score of generation n.
C2_ElitistMonotonicity ==
  (config.elitism # None /\ config.elitism[1] > 0) => BestNeverWorse

\* C2 amended: whenever select carries at least one elite over, that is
\* int(elitism_fraction * pop_size) >= 1, the best score of generation n+1 is
\* at most the best score of generation n, with or without crossover.
C2_Amended ==
  EliteCount >= 1 => BestNeverWorse

\* C2 witness: two generations evaluated with an elite and crossover enabled,
\* and the best score strictly improved.
C2_Witness ==
  /\ EliteCount >= 1
  /\ config.crossover
  /\ Len(evolution_process) >= 2
  /\ BestScore(2) < BestScore(1)

\* C3: every Gene whose constraint is Hard has minimum < value < maximum,
\* from construction on.
C3_HardContainment ==
  \A gid \in DOMAIN genes :
    genes[gid].constraint = "Hard" =>
      genes[gid].minimum < genes[gid].gene /\ genes[gid].gene < genes[gid].maximum

\* C4: after crossover, for every parent pair the parent put back scores no
\* worse than the discarded parent and the child appended scores no worse
\* than the discarded child; one parent and one child per pair are in the
\* population, the parents before the children, in pair order.
C4_SurvivorRule ==
  \A i \in DOMAIN crossed :
    LET r          == crossed[i]
        half       == Len(crossed)
        kept       == IF r.best = "male" THEN r.male ELSE r.female
        lost       == IF r.best = "male" THEN r.female ELSE r.male
        kept_child == IF r.best_child = "child1" THEN r.child1 ELSE r.child2
        lost_child == IF r.best_child = "child1" THEN r.child2 ELSE r.child1
    IN  /\ ScoreOf(kept) <= ScoreOf(lost)
        /\ ScoreOf(kept_child) <= ScoreOf(lost_child)
        /\ Len(pop) = config.pop_size
        /\ Phenotype(individuals, genes, pop[Len(pop) - 2 * half + i]) = kept
        /\ Phenotype(individuals, genes, pop[Len(pop) - half + i]) = kept_child

\* C4 witness: a crossover whose two parents score differently and whose two
\* children score differently.
C4_Witness ==
  /\ Len(crossed) = 1
  /\ ScoreOf(crossed[1].male) < ScoreOf(crossed[1].female)
  /\ ScoreOf(crossed[1].child2) < ScoreOf(crossed[1].child1)

\* C5: no Individual object occupies two positions of the population and no
\* Gene object belongs to two Individuals (or to two keys of one genotype).
C5_NoSharing ==
  /\ \A i, j \in DOMAIN pop : i # j => pop[i] # pop[j]
  /\ \A i, j \in DOMAIN individuals :
       \A k \in DOMAIN individuals[i].genotype :
       \A l \in DOMAIN individuals[j].genotype :
         individuals[i].genotype[k] = individuals[j].genotype[l] => (i = j /\ k = l)

\* C5 witness: a crossover has appended a child built from copies of its
\* parents' genes next to the surviving parent, with the same gene values in
\* two different individuals.
C5_Witness ==
  /\ Len(crossed) = 1
  /\ \E i, j \in DOMAIN pop :
       /\ i # j
       /\ Phenotype(individuals, genes, pop[i]) = Phenotype(individuals, genes, pop[j])


\* a configuration with a shape error: crossover enabled on a genotype of
\* fewer than 2 genes, or on a parent count that exceeds the population size
ShapeError ==
  /\ config.crossover
  /\ \/ Len(config.indiv) < 2
     \/ ParentSize(config.crossover_rate, config.pop_size) > config.pop_size

\* C6: a configuration with a shape error is rejected before any generation
\* runs: evolve calls no method of the population and never completes.
C6_ShapeErrorRejected ==
  ShapeError => (calls = <<>> /\ pc # "done")

\* C7: a Gene of an unrecognized type behaves as a real gene, so no mutate
\* call on it raises.
C7_UnknownTypeMutates ==
  (\E gid \in DOMAIN genes : genes[gid].type \notin {"int", "float"})
    => error # "UnboundLocalError"

\* the number of calls of a method made by evolve so far
Count(method) == Cardinality({i \in DOMAIN calls : calls[i] = method})

\* the calls evolve makes in one iteration
Iteration ==
  IF config.crossover THEN <<"crossover", "evaluate", "select">>
  ELSE <<"evaluate", "select">>

\* C8: evolve calls crossover (if enabled), evaluate and select in this order
\* in every iteration, the i-th trace entry is appended after the i-th
\* evaluate and before the i-th select, and a completed evolve has run exactly
\* generation_count iterations and holds generation_count trace entries.
C8_LoopOrder ==
  /\ \A i \in DOMAIN calls : calls[i] = Iteration[((i - 1) % Len(Iteration)) + 1]
  /\ Count("select") <= Len(evolution_process)
  /\ Len(evolution_process) <= Count("evaluate")
  /\ pc = "select" => Len(evolution_process) = Count("evaluate")
  /\ pc = "append" => Len(evolution_process) = Count("evaluate") - 1
  /\ pc = "done" =>
       /\ Len(evolution_process) = config.generations
       /\ Len(calls) = config.generations * Len(Iteration)

\* C8 witness: a completed run of MaxGen generations with crossover enabled.
C8_Witness ==
  /\ pc = "done"
  /\ config.crossover
  /\ config.generations = MaxGen
  /\ Len(evolution_process) = MaxGen

\* C9: after at least one iteration, the individual reported as best has the
\* minimum and the one reported as worst the maximum fitness score of the
\* final population.
C9_ReportedBestAndWorst ==
  (Len(report) > 0 /\ config.generations > 0) =>
    \A i \in DOMAIN pop :
      /\ report[1].best.fitness <= Evaluate(individuals, genes, pop[i])
      /\ report[1].worst.fitness >= Evaluate(individuals, genes, pop[i])

\* the Gene object g2 can be what mutate leaves of a copy of g1
MutatedCopy(g1, g2) ==
  /\ g2.type = g1.type /\ g2.minimum = g1.minimum /\ g2.maximum = g1.maximum
  /\ g2.constraint = g1.constraint
  /\ \E mutation \in Mutations : g2.gene = GeneMutate(g1, mutation)

\* C10: a select that follows evaluate with elitism enabled keeps the top
\* int(elitism * pop_size) individuals of the evaluated population with their
\* gene values unchanged, and every other individual of the next generation
\* is a mutated copy of some individual of the evaluated population.
C10_Step ==
  (pc = "select" /\ pc' = "loop" /\ config.elitism # None) =>
    /\ Len(pop') = Len(pop)
    /\ \A i \in 1..EliteCount :
         /\ Phenotype(individuals', genes', pop'[i]) = Phenotype(individuals, genes, pop[i])
         /\ individuals'[pop'[i]].constraint = individuals[pop[i]].constraint
    /\ \A i \in (EliteCount + 1)..Len(pop') :
         \E j \in DOMAIN pop :
           /\ individuals'[pop'[i]].constraint = individuals[pop[j]].constraint
           /\ \A k \in DOMAIN config.indiv :
                MutatedCopy(genes[individuals[pop[j]].genotype[k]],
                            genes'[individuals'[pop'[i]].genotype[k]])

C10_SelectKeepsElites == [][C10_Step]_vars

\* C10 witness: select has run with one elite kept, and a mutated copy now
\* scores better than the elite.
C10_Witness ==
  /\ pc = "loop"
  /\ gen >= 1
  /\ EliteCount = 1
  /\ Evaluate(individuals, genes, pop[2]) < Evaluate(individuals, genes, pop[1])

\* C11: a call of Population.evaluate never fails, leaves the population in
\* ascending order of fitness score (best first), and the population after
\* the call is a permutation of the one before: the same number of
\* individuals, each individual of before at exactly one position of after
\* with every gene unchanged; equal scores are no failure.
EvaluateStep == calls' = Append(calls, "evaluate")

C11_Step ==
  EvaluateStep =>
    /\ error' = "none"
    /\ \A i \in 1..(Len(pop') - 1) :
         Evaluate(individuals', genes', pop'[i])
           <= Evaluate(individuals', genes', pop'[i + 1])
    /\ Len(pop') = Len(pop)
    /\ Cardinality(Range(pop')) = Cardinality(Range(pop))
    /\ \E perm \in [DOMAIN pop -> DOMAIN pop] :
         /\ \A i, j \in DOMAIN pop : perm[i] = perm[j] => i = j
         /\ \A i \in DOMAIN pop :
              /\ GenesOf(individuals', genes', pop'[i])
                   = GenesOf(individuals, genes, pop[perm[i]])
              /\ individuals'[pop'[i]].constraint
                   = individuals[pop[perm[i]]].constraint

C11_EvaluateSorts == [][C11_Step]_vars

\* evaluate has just run on a population of three in which the elite of the
\* generation before stood first: it now stands last, behind two individuals
\* of equal score
C11_Witness ==
  /\ pc = "append" /\ gen >= 1 /\ Len(pop) = 3
  /\ Phenotype(individuals, genes, pop[3]) = SubSeq(evolution_process[gen][1], 1, 1)
  /\ Evaluate(individuals, genes, pop[1]) = Evaluate(individuals, genes, pop[2])
  /\ Evaluate(individuals, genes, pop[2]) < Evaluate(individuals, genes, pop[3])

\* C12: for a genotype of at least two genes, both children _cross makes for
\* a parent pair (a, b) have one gene per schema entry, in schema order and of
\* that entry's type and interval, and are a single-point splice at a cut p
\* in 1 .. gene_count - 1: one child has the first p gene values of a and the
\* others of b, the other child the reverse.
MatchesSchema(genotype) ==
  /\ Len(genotype) = Len(config.indiv)
  /\ \A k \in DOMAIN genotype :
       /\ genotype[k].type = config.indiv[k].type
       /\ genotype[k].minimum = config.indiv[k].minimum
       /\ genotype[k].maximum = config.indiv[k].maximum

Splice(a, b, p) == SubSeq(a, 1, p) \o SubSeq(b, p + 1, Len(b))

C12_SinglePointSplice ==
  \A i \in DOMAIN crossed :
    LET c == crossed[i]
    IN  Len(config.indiv) >= 2 =>
          /\ c.position \in 1 .. (Len(config.indiv) - 1)
          /\ MatchesSchema(c.child1_genotype)
          /\ MatchesSchema(c.child2_genotype)
          /\ c.child1 = Splice(c.male, c.female, c.position)
          /\ c.child2 = Splice(c.female, c.male, c.position)
          /\ c.child1 = [k \in DOMAIN c.child1 |-> c.child1_genotype[k].gene]
          /\ c.child2 = [k \in DOMAIN c.child2 |-> c.child2_genotype[k].gene]

\* two parents of three genes that differ in every gene were crossed at
\* position 2
C12_Witness ==
  \E i \in DOMAIN crossed :
    /\ Len(config.indiv) = 3
    /\ crossed[i].position = 2
    /\ \A k \in 1..3 : crossed[i].male[k] # crossed[i].female[k]
    /\ crossed[i].child1 \notin {crossed[i].male, crossed[i].female}

\* C13: every entry of the trace of evolve holds, for the best and for the
\* worst individual of the evaluated population, the gene values in genotype
\* order followed by the fitness score the ranking used (the fitness function
\* applied to the objective value), so that in every entry the best score is
\* at most the worst score, under Minimize and under Maximize.
TracePhenotype(record) == SubSeq(record, 1, Len(record) - 1)

TraceScore(record) == record[Len(record)]

C13_TraceRecordsFitness ==
  \A n \in DOMAIN evolution_process :
    LET best  == evolution_process[n][1]
        worst == evolution_process[n][2]
    IN  /\ Len(best) = Len(config.indiv) + 1
        /\ Len(worst) = Len(config.indiv) + 1
        /\ TraceScore(best) = ScoreOf(TracePhenotype(best))
        /\ TraceScore(worst) = ScoreOf(TracePhenotype(worst))
        /\ TraceScore(best) <= TraceScore(worst)

\* C14: in a population configured with constraint Hard, every Gene of every
\* Individual of the population has constraint Hard in every state, the genes
\* of crossover children and of the copies select makes included, and so no
\* gene has left its interval [minimum, maximum) by a mutation under the Soft
\* rule.
C14_HardGenesStayHard ==
  config.constraint = "Hard" =>
    \A i \in DOMAIN pop : \A k \in DOMAIN individuals[pop[i]].genotype :
      LET g == genes[individuals[pop[i]].genotype[k]]
      IN  /\ g.constraint = "Hard"
          /\ g.minimum <= g.gene /\ g.gene < g.maximum

\* a Hard population holds a crossover child (an Individual constructed with
\* the default Soft mode) next to an individual constructed Hard, after a
\* later call of mutate, select or evaluate went through
C14_Witness ==
  /\ config.constraint = "Hard" /\ error = "none" /\ crossed = <<>>
  /\ \E i, j \in DOMAIN pop :
       /\ individuals[pop[i]].constraint = "Soft"
       /\ individuals[pop[j]].constraint = "Hard"
       /\ \E k \in DOMAIN individuals[pop[i]].genotype :
            genes[individuals[pop[i]].genotype[k]].gene
              = genes[individuals[pop[i]].genotype[k]].maximum - 1

====
